---- MODULE Spec2Model ----
(***************************************************************************)
(* A model of the AI receipt bot of src/bot.py: the handlers of            *)
(* AIReceiptBot, the way main() registers them with the Application and    *)
(* its ConversationHandler, the per-user context.user_data, and the        *)
(* ledger sheet written by GoogleSheetManager.add_transaction.             *)
(*                                                                         *)
(* Text (a message's text, a store name, a date) is a sequence of          *)
(* one-character strings, so that strip(), lower(), float() and strptime() *)
(* are computed on the characters.  Tokens that the code only compares or  *)
(* copies (commands, callback data, categories, currency, summary) are     *)
(* strings.  A dict is a function whose DOMAIN is the set of its keys; a   *)
(* key whose value is None in the code is a key left out of the function.  *)
(* Floats are whole numbers or nan; confidence is in tenths (9 is 0.9).    *)
(***************************************************************************)
EXTENDS Integers, Sequences, FiniteSets, TLC

VARIABLES
    user_data,      \* context.user_data of each user
    conv,           \* the ConversationHandler's state of each user's conversation
    ledger,         \* the rows of the sheet, below the header
    update_queue,   \* updates received while a handler is suspended
    inflight,       \* the analyze_receipt call the running handler awaits
    offered,        \* callback data of the keyboard last sent to each user
    buttons,        \* callback data of every keyboard sent to each user so far
    last,           \* the update last taken, its handler, and the state it met
    call            \* the analyzer's or sheet manager's method last called by
                    \* itself: its argument and what it returned

vars == <<user_data, conv, ledger, update_queue, inflight, offered, buttons,
          last, call>>

\* ------------------------------------------------------------------ bounds

\* Cells of the id column get_next_id is given when called by itself.
MaxIds == 3

\* Rows the ledger may hold when two users commit in turn.
MaxPairRows == 2

\* Rows the ledger may hold before the model stops committing.
MaxRows == 1

\* Updates that may wait in the Application's update queue.
MaxQueue == 1

\* Rows the sheet may hold when the sheet manager is called by itself.
MaxSheet == 3

\* ------------------------------------------------------------ conversation

\* NAME, AMOUNT, DATE, CATEGORY = range(4); ConversationHandler.END is -1.
NAME == 0
AMOUNT == 1
DATE == 2
CATEGORY == 3
END == -1

Users == {1, 2}

FullName(u) == IF u = 1 THEN "Ann A" ELSE "Ben B"

\* ------------------------------------------------------------------- text

T_Blank == <<" ">>
T_Bob == <<"B", "o", "b">>
T_BOB == <<"B", "O", "B">>
T_Seven == <<"7">>
T_Date == <<"2", "0", "2", "4", "-", "0", "1", "-", "0", "5">>
T_Shop == <<"S", "h", "o", "p">>
T_Receipt == <<"R", "e", "c", "e", "i", "p", "t">>
T_today == <<"t", "o", "d", "a", "y">>
T_nan == <<"n", "a", "n">>
T_Minus == <<"-", "7">>
T_Dollar == <<"$", "1", ",", "7">>
T_Today == <<"T", "o", "d", "a", "y">>
T_BadDate == <<"2", "0", "2", "4", "-", "0", "2", "-", "3", "0">>

\* datetime.now().strftime('%Y-%m-%d'), one fixed day.
Today == <<"2", "0", "2", "4", "-", "0", "3", "-", "0", "1">>

\* datetime.now().isoformat()
NowIso == "2024-03-01T10:00:00"

Digits == <<"0", "1", "2", "3", "4", "5", "6", "7", "8", "9">>
UpperCase == <<"A", "B", "C", "D", "E", "F", "G", "H", "I", "J", "K", "L", "M",
               "N", "O", "P", "Q", "R", "S", "T", "U", "V", "W", "X", "Y", "Z">>
LowerCase == <<"a", "b", "c", "d", "e", "f", "g", "h", "i", "j", "k", "l", "m",
               "n", "o", "p", "q", "r", "s", "t", "u", "v", "w", "x", "y", "z">>

IsDigit(c) == \E i \in 1..10 : Digits[i] = c

DigitValue(c) == (CHOOSE i \in 1..10 : Digits[i] = c) - 1

IsSpace(c) == c \in {" ", "\t", "\n"}

RECURSIVE lstrip(_)
lstrip(s) == IF s # <<>> /\ IsSpace(Head(s)) THEN lstrip(Tail(s)) ELSE s

RECURSIVE rstrip(_)
rstrip(s) ==
    IF s # <<>> /\ IsSpace(s[Len(s)]) THEN rstrip(SubSeq(s, 1, Len(s) - 1)) ELSE s

\* str.strip()
strip(s) == rstrip(lstrip(s))

\* str.lower()
lower(s) ==
    [i \in 1..Len(s) |->
        IF \E k \in 1..26 : UpperCase[k] = s[i]
        THEN LowerCase[CHOOSE k \in 1..26 : UpperCase[k] = s[i]]
        ELSE s[i]]

\* str.replace(ch, '')
RECURSIVE remove(_, _)
remove(s, ch) ==
    IF s = <<>> THEN <<>>
    ELSE IF Head(s) = ch THEN remove(Tail(s), ch)
    ELSE <<Head(s)>> \o remove(Tail(s), ch)

AllDigits(s) == s # <<>> /\ \A i \in 1..Len(s) : IsDigit(s[i])

RECURSIVE Number(_)
Number(s) == IF s = <<>> THEN 0 ELSE Number(SubSeq(s, 1, Len(s) - 1)) * 10 + DigitValue(s[Len(s)])

\* A float: a whole number, or nan.
Float(n) == [nan |-> FALSE, v |-> n]

NaN == [nan |-> TRUE, v |-> 0]

\* x > 0 and x <= 0 on floats: a comparison with nan is False.
gt0(x) == ~x.nan /\ x.v > 0

le0(x) == ~x.nan /\ x.v <= 0

\* float(text) on texts made of an optional sign and digits or "nan" in any
\* letter case: whether it parses (no ValueError), and the value.
float_ok(s) ==
    LET t == strip(s)
        body == IF t # <<>> /\ Head(t) \in {"-", "+"} THEN Tail(t) ELSE t
    IN AllDigits(body) \/ lower(body) = T_nan

float_value(s) ==
    LET t == strip(s)
        neg == t # <<>> /\ Head(t) = "-"
        body == IF t # <<>> /\ Head(t) \in {"-", "+"} THEN Tail(t) ELSE t
    IN IF lower(body) = T_nan THEN NaN
       ELSE IF neg THEN Float(0 - Number(body)) ELSE Float(Number(body))

\* The text before the first ch, and the text after it.
RECURSIVE before(_, _)
before(s, ch) ==
    IF s = <<>> \/ Head(s) = ch THEN <<>> ELSE <<Head(s)>> \o before(Tail(s), ch)

RECURSIVE after(_, _)
after(s, ch) ==
    IF s = <<>> THEN <<>> ELSE IF Head(s) = ch THEN Tail(s) ELSE after(Tail(s), ch)

DaysIn(y, m) ==
    IF m \in {4, 6, 9, 11} THEN 30
    ELSE IF m = 2 THEN (IF (y % 4 = 0 /\ y % 100 # 0) \/ y % 400 = 0 THEN 29 ELSE 28)
    ELSE 31

\* datetime.strptime(text, '%Y-%m-%d') does not raise ValueError.
strptime_ok(s) ==
    LET y == before(s, "-")
        r == after(s, "-")
        m == before(r, "-")
        d == after(r, "-")
    IN /\ Len(y) = 4 /\ AllDigits(y) /\ Number(y) >= 1
       /\ Len(m) \in {1, 2} /\ AllDigits(m)
       /\ Len(d) \in {1, 2} /\ AllDigits(d)
       /\ Number(m) \in 1..12
       /\ Number(d) >= 1
       /\ Number(d) <= DaysIn(Number(y), Number(m))

\* ------------------------------------------------------------------ dicts

EmptyDict == [k \in {} |-> 0]

Has(d, k) == k \in DOMAIN d

\* dict.get(k, default)
Get(d, k, default) == IF k \in DOMAIN d THEN d[k] ELSE default

\* d[k] = v
Put(d, k, v) == [x \in (DOMAIN d) \cup {k} |-> IF x = k THEN v ELSE d[x]]

\* A handler that leaves user_data as it was where the code clears it.
clear_kept(d) == d

\* context.user_data.clear()
clear(d) == EmptyDict

\* ------------------------------------------------------------ ReceiptData

\* ReceiptData(): the dataclass defaults.
ReceiptData ==
    [store_name |-> <<>>, total_amount |-> Float(0), date |-> <<>>,
     currency |-> "USD", items |-> <<>>, summary |-> "", confidence |-> Float(0)]

\* A JSON value given to float(): a number (json.loads also reads the
\* literal NaN), null or a string.
JNumber(n) == [json |-> "number", f |-> Float(n), s |-> <<>>]

JNaN == [json |-> "number", f |-> NaN, s |-> <<>>]

JNull == [json |-> "null", f |-> Float(0), s |-> <<>>]

JString(t) == [json |-> "string", f |-> Float(0), s |-> t]

\* float(value): whether it returns (no TypeError, no ValueError), and what.
float_json_ok(j) == j.json = "number" \/ (j.json = "string" /\ float_ok(j.s))

float_json(j) == IF j.json = "number" THEN j.f ELSE float_value(j.s)

\* What the extraction backend can answer: the analyzer is not available, the
\* call raises, the reply is not JSON, the reply is JSON but no object, or the
\* reply is a JSON object (a dict holding some of the keys).
R_Good ==
    [kind |-> "object",
     data |-> [store_name |-> T_Shop, total_amount |-> JNumber(5), date |-> T_Date,
               currency |-> "USD", items |-> <<[name |-> "milk"]>>,
               summary |-> "milk", confidence |-> JNumber(9)]]

R_NoConfidence ==
    [kind |-> "object",
     data |-> [store_name |-> T_Shop, total_amount |-> JNumber(5)]]

\* Replies whose total_amount is negative, whose total_amount is NaN, and
\* whose date is no date.
R_Negative ==
    [kind |-> "object",
     data |-> [store_name |-> T_Shop, total_amount |-> JNumber(0 - 5), date |-> T_Date,
               confidence |-> JNumber(9)]]

R_NaN ==
    [kind |-> "object",
     data |-> [store_name |-> T_Shop, total_amount |-> JNaN, date |-> T_Date,
               confidence |-> JNumber(9)]]

R_BadDate ==
    [kind |-> "object",
     data |-> [store_name |-> T_Shop, total_amount |-> JNumber(5), date |-> T_Bob,
               confidence |-> JNumber(9)]]

StoreOptions == <<T_Shop>>

AmountOptions ==
    <<JNumber(5), JNumber(0), JNumber(0 - 5), JNaN, JNull, JString(T_Seven),
      JString(T_Bob), JString(T_nan)>>

DateOptions == <<T_Date, T_Bob>>

ConfidenceOptions == <<JNumber(9), JNumber(0), JNull, JString(T_Bob)>>

\* A dict with key k set to the i-th option, or without k when i is 0.
WithKey(d, k, options, i) == IF i = 0 THEN d ELSE Put(d, k, options[i])

JsonObject(s, a, d, c) ==
    WithKey(WithKey(WithKey(WithKey(EmptyDict,
        "store_name", StoreOptions, s),
        "total_amount", AmountOptions, a),
        "date", DateOptions, d),
        "confidence", ConfidenceOptions, c)

CurrencyOptions == <<"EUR">>

ItemsOptions == <<(<<[name |-> "milk"]>>)>>

SummaryOptions == <<"milk">>

\* The objects that hold any subset of the seven keys, each with its first
\* option.
KeySubsets ==
    {WithKey(WithKey(WithKey(JsonObject(s, a, d, c),
        "currency", CurrencyOptions, u),
        "items", ItemsOptions, i),
        "summary", SummaryOptions, m) :
     s \in 0..1, a \in 0..1, d \in 0..1, c \in 0..1, u \in 0..1, i \in 0..1, m \in 0..1}

Replies ==
    {[kind |-> "unavailable"], [kind |-> "raises"], [kind |-> "text"],
     [kind |-> "array"], R_Good, R_NoConfidence}
    \cup {[kind |-> "object", data |-> JsonObject(s, a, d, c)] :
            s \in 0..Len(StoreOptions), a \in 0..Len(AmountOptions),
            d \in 0..Len(DateOptions), c \in 0..Len(ConfidenceOptions)}
    \cup {[kind |-> "object", data |-> data] : data \in KeySubsets}

\* The exception raised inside analyze_receipt's try for a backend answer, ""
\* when none is: the API call raises, json.loads raises JSONDecodeError,
\* data.get of a reply that is no object raises AttributeError, float(None)
\* raises TypeError and float of a text that is no number raises ValueError.
exception_of(reply) ==
    IF reply.kind = "raises" THEN "APIError"
    ELSE IF reply.kind = "text" THEN "JSONDecodeError"
    ELSE IF reply.kind = "array" THEN "AttributeError"
    ELSE IF reply.kind = "object"
    THEN LET total_amount == Get(reply.data, "total_amount", JNumber(0))
             confidence == Get(reply.data, "confidence", JNumber(0))
         IN IF total_amount.json = "null" THEN "TypeError"
            ELSE IF ~float_json_ok(total_amount) THEN "ValueError"
            ELSE IF confidence.json = "null" THEN "TypeError"
            ELSE IF ~float_json_ok(confidence) THEN "ValueError"
            ELSE ""
    ELSE ""

\* The classes "except json.JSONDecodeError" and "except Exception" catch.
Caught ==
    {"JSONDecodeError"}
    \cup {"APIError", "JSONDecodeError", "AttributeError", "TypeError", "ValueError"}

\* Whether analyze_receipt returns to its caller rather than raising.
analyze_receipt_returns(reply) ==
    exception_of(reply) = "" \/ exception_of(reply) \in Caught

\* An analyze_receipt whose fallback keeps the fields read from the reply
\* before the failure.
analyze_receipt_partial(reply) ==
    IF reply.kind = "object"
    THEN LET data == reply.data
             total_amount == Get(data, "total_amount", JNumber(0))
             confidence == Get(data, "confidence", JNumber(0))
         IN [store_name |-> Get(data, "store_name", <<>>),
             total_amount |-> IF float_json_ok(total_amount)
                              THEN float_json(total_amount) ELSE Float(0),
             date |-> Get(data, "date", Today),
             currency |-> Get(data, "currency", "USD"),
             items |-> Get(data, "items", <<>>),
             summary |-> Get(data, "summary", ""),
             confidence |-> IF float_json_ok(confidence)
                            THEN float_json(confidence) ELSE Float(0)]
    ELSE ReceiptData

\* An analyze_receipt that fails the whole extraction when the reply lacks
\* one of the seven keys.
analyze_receipt_strict(reply) ==
    IF reply.kind = "object"
       /\ exception_of(reply) = ""
       /\ DOMAIN ReceiptData \subseteq DOMAIN reply.data
    THEN [store_name |-> reply.data["store_name"],
          total_amount |-> float_json(reply.data["total_amount"]),
          date |-> reply.data["date"],
          currency |-> reply.data["currency"],
          items |-> reply.data["items"],
          summary |-> reply.data["summary"],
          confidence |-> float_json(reply.data["confidence"])]
    ELSE ReceiptData

\* OpenAIAnalyzer.analyze_receipt: the record returned for a backend answer.
\* Without a client it returns ReceiptData() at once, and so does each of the
\* two except clauses.
analyze_receipt(reply) ==
    IF reply.kind = "unavailable" \/ exception_of(reply) # ""
    THEN ReceiptData
    ELSE LET data == reply.data
         IN [store_name |-> Get(data, "store_name", <<>>),
             total_amount |-> float_json(Get(data, "total_amount", JNumber(0))),
             date |-> Get(data, "date", Today),
             currency |-> Get(data, "currency", "USD"),
             items |-> Get(data, "items", <<>>),
             summary |-> Get(data, "summary", ""),
             confidence |-> float_json(Get(data, "confidence", JNumber(0)))]

\* ----------------------------------------------------------------- ledger

\* A row is a dict from the header's column to the cell; a cell written as
\* None is left out.
Columns ==
    <<<<"User ID", "user_id">>, <<"Username", "user_name">>, <<"Name", "name">>,
      <<"Amount", "amount">>, <<"Date", "date">>, <<"Category", "category">>,
      <<"Description", "description">>, <<"Store", "store">>,
      <<"AI Confidence", "confidence">>, <<"Currency", "currency">>,
      <<"AI Summary", "summary">>>>

ColumnNames == {Columns[i][1] : i \in 1..Len(Columns)}

KeyOf(col) == Columns[CHOOSE i \in 1..Len(Columns) : Columns[i][1] = col][2]

\* A get_next_id that answers from the id column as it was before the last
\* append.
get_next_id_stale(rows, read_ok) ==
    IF Len(rows) <= 1 THEN 1
    ELSE rows[Len(rows) - 1]["ID"] + 1

\* GoogleSheetManager.get_next_id; read_ok is whether col_values() succeeds.
get_next_id(rows, read_ok) ==
    IF ~read_ok THEN 1
    ELSE LET ids == {rows[i]["ID"] : i \in 1..Len(rows)}
             numeric == {id \in ids : id >= 0}
         IN IF numeric = {} THEN 1
            ELSE (CHOOSE m \in numeric : \A x \in numeric : x <= m) + 1

\* The character SUPERSCRIPT TWO, written here as one token: str.isdigit() is
\* True for it and int() raises ValueError on it.
SuperscriptTwo == "^2"

\* str.isdigit()
isdigit(s) == s # <<>> /\ \A i \in 1..Len(s) : IsDigit(s[i]) \/ s[i] = SuperscriptTwo

\* int(s) of a text for which isdigit() is True: whether it returns.
int_ok(s) == AllDigits(s)

\* get_next_id on the id column as col_values(1)[1:] returns it, a list of
\* texts: the cells isdigit() accepts go through int(), and an int() that
\* raises is caught by the bare except, which returns 1.
get_next_id_cells(ids) ==
    LET kept == {i \in 1..Len(ids) : isdigit(ids[i])}
        numbers == {Number(ids[i]) : i \in {k \in kept : int_ok(ids[k])}}
    IN IF ids = <<>> THEN 1
       ELSE IF \E i \in kept : ~int_ok(ids[i]) THEN 1
       ELSE IF numbers = {} THEN 1
       ELSE (CHOOSE m \in numbers : \A x \in numbers : x <= m) + 1

\* The row add_transaction builds from the transaction data.
Row(data, next_id) ==
    LET present == {c \in ColumnNames : KeyOf(c) \in DOMAIN data}
    IN [c \in present \cup {"ID", "Timestamp", "Items Count", "Has Image"} |->
          IF c = "ID" THEN next_id
          ELSE IF c = "Timestamp" THEN NowIso
          ELSE IF c = "Items Count" THEN Len(data["items"])
          ELSE IF c = "Has Image" THEN (IF data["has_image"] THEN "yes" ELSE "no")
          ELSE data[KeyOf(c)]]

\* What a call of add_transaction can meet: no sheet was opened at start-up
\* (self.sheets or self.sheets.sheet is None), col_values() raises inside
\* get_next_id, append_row() raises, or all goes well.  A sheet that holds
\* MaxRows rows takes no more.
IoOutcomes(rows) ==
    IF Len(rows) < MaxRows THEN {"ok", "read_fails", "append_fails", "no_sheet"}
    ELSE {"append_fails", "no_sheet"}

\* GoogleSheetManager.add_transaction: whether it returns True.
add_transaction_ok(io) == io \in {"ok", "read_fails"}

\* An add_transaction that writes the row again when the first append went
\* through.
add_transaction_twice(rows, data, io) ==
    IF add_transaction_ok(io)
    THEN LET row == Row(data, get_next_id(rows, io # "read_fails"))
         IN Append(Append(rows, row), row)
    ELSE rows

\* GoogleSheetManager.add_transaction: the sheet afterwards.
add_transaction(rows, data, io) ==
    IF add_transaction_ok(io)
    THEN Append(rows, Row(data, get_next_id(rows, io # "read_fails")))
    ELSE rows

\* A get_transactions that compares the names as they are written.
get_transactions_exact(rows, name, read_ok) ==
    IF ~read_ok THEN <<>>
    ELSE IF name # <<>>
    THEN SelectSeq(rows, LAMBDA r : Get(r, "Name", <<>>) = name)
    ELSE rows

\* GoogleSheetManager.get_transactions, name <<>> being None; read_ok is
\* whether get_all_records() succeeds.  A cell left out reads as ''.
get_transactions(rows, name, read_ok) ==
    IF ~read_ok THEN <<>>
    ELSE IF name # <<>>
    THEN SelectSeq(rows, LAMBDA r : lower(Get(r, "Name", <<>>)) = lower(name))
    ELSE rows

\* a + b on floats.
fadd(a, b) == IF a.nan \/ b.nan THEN NaN ELSE Float(a.v + b.v)

\* The loop of get_total: a row written with amount None has an empty Amount
\* cell; float('') raises and the row is skipped.
RECURSIVE sum_amounts(_)
sum_amounts(transactions) ==
    IF transactions = <<>> THEN Float(0)
    ELSE LET n == Len(transactions)
             total == sum_amounts(SubSeq(transactions, 1, n - 1))
         IN IF Has(transactions[n], "Amount")
            THEN fadd(total, transactions[n]["Amount"])
            ELSE total

\* A get_total that counts a row without an amount as 1.
get_total_counting(rows, name, read_ok) ==
    LET transactions == get_transactions(rows, name, read_ok)
        missing == {i \in 1..Len(transactions) : ~Has(transactions[i], "Amount")}
    IN fadd(sum_amounts(transactions), Float(Cardinality(missing)))

\* GoogleSheetManager.get_total
get_total(rows, name, read_ok) == sum_amounts(get_transactions(rows, name, read_ok))

\* GoogleSheetManager.get_names: the names of the sheet, stripped, the blank
\* ones left out; the set stands for the sorted list.
get_names(rows, read_ok) ==
    IF ~read_ok THEN {}
    ELSE {strip(Get(rows[i], "Name", <<>>)) :
            i \in {k \in 1..Len(rows) : strip(Get(rows[k], "Name", <<>>)) # <<>>}}

\* total_command without a name:
\* count = sum(len(get_transactions(name)) for name in names)
RECURSIVE count_over(_, _, _)
count_over(rows, names, read_ok) ==
    IF names = {} THEN 0
    ELSE LET name == CHOOSE n \in names : TRUE
         IN Len(get_transactions(rows, name, read_ok))
            + count_over(rows, names \ {name}, read_ok)

\* stats_command once the sheet manager is there: "no_transactions" when
\* get_transactions() returns nothing, else the total (float('') of an empty
\* Amount cell raises ValueError), the average total / len(transactions) and,
\* for each category, amount / total * 100, which raises ZeroDivisionError
\* when the total is 0; nothing catches either.
stats_command(rows, read_ok) ==
    LET transactions == get_transactions(rows, <<>>, read_ok)
        total_amount == sum_amounts(transactions)
    IN IF transactions = <<>> THEN "no_transactions"
       ELSE IF \E i \in 1..Len(transactions) : ~Has(transactions[i], "Amount")
       THEN "ValueError"
       ELSE IF ~total_amount.nan /\ total_amount.v = 0 THEN "ZeroDivisionError"
       ELSE "statistics"

\* ---------------------------------------------------------------- updates

\* The image bytes a photo update carries.
Images == {"img1"}

Texts ==
    {T_Blank, T_Bob, T_Seven, T_Date, T_nan, T_Minus, T_Dollar, T_Today, T_BadDate}

Commands == {"add", "cancel"}

\* pattern="^(save_ai|edit_manual|reanalyze|cancel)$"
ButtonPattern == {"save_ai", "edit_manual", "reanalyze", "cancel"}

\* The categories users pick, among those of the category keyboard.
Categories == {"Food", "Other"}

Updates ==
    {[user |-> u, kind |-> "photo", data |-> i, text |-> <<>>] :
        u \in Users, i \in Images}
    \cup {[user |-> u, kind |-> "text", data |-> "", text |-> t] :
        u \in Users, t \in Texts}
    \cup {[user |-> u, kind |-> "command", data |-> c, text |-> <<>>] :
        u \in Users, c \in Commands}
    \cup {[user |-> u, kind |-> "callback", data |-> d, text |-> <<>>] :
        u \in Users, d \in ButtonPattern \cup Categories}

\* ConversationHandler.check_update for a conversation in state c: the
\* callback that takes the update, "" when none does.  Outside a conversation
\* only the entry points are tried; inside, the state's handlers and then the
\* fallbacks.
conv_handler(upd, c) ==
    IF c = END
    THEN IF upd.kind = "command" /\ upd.data = "add" THEN "add_manual"
         ELSE IF upd.kind = "callback" /\ upd.data = "edit_manual" THEN "button_handler"
         ELSE ""
    ELSE IF c = NAME /\ upd.kind = "text" THEN "get_name"
    ELSE IF c = AMOUNT /\ upd.kind = "text" THEN "get_amount"
    ELSE IF c = DATE /\ upd.kind = "text" THEN "get_date"
    ELSE IF c = CATEGORY /\ upd.kind = "callback" THEN "get_category"
    ELSE IF upd.kind = "command" /\ upd.data = "cancel" THEN "cancel"
    ELSE ""

\* A dispatch that tries conv_handler before the button handler.
process_update_conv_first(upd, c) ==
    IF upd.kind = "photo" THEN <<"app", "handle_photo">>
    ELSE IF conv_handler(upd, c) # "" THEN <<"conv", conv_handler(upd, c)>>
    ELSE IF upd.kind = "callback" /\ upd.data \in ButtonPattern
    THEN <<"app", "button_handler">>
    ELSE <<"conv", "">>

\* Application.process_update over the handlers in the order main() adds
\* them: the first handler whose check_update accepts the update takes it.
\* The result is <<where, callback>>, where is "app" for a handler added to
\* the application itself and "conv" for one inside conv_handler.
process_update(upd, c) ==
    IF upd.kind = "photo" THEN <<"app", "handle_photo">>
    ELSE IF upd.kind = "callback" /\ upd.data \in ButtonPattern
    THEN <<"app", "button_handler">>
    ELSE <<"conv", conv_handler(upd, c)>>

\* The conversation state after a callback returned ret: only a handler run
\* by conv_handler moves the conversation.
next_state(where, c, ret) == IF where = "conv" THEN ret ELSE c

\* ---------------------------------------------------------------- the state

NoCall == [user |-> 0, op |-> "", image |-> ""]

NoUpdate ==
    [user |-> 0, kind |-> "", data |-> "", text |-> <<>>, handler |-> "", from |-> "",
     result |-> ""]

\* No method called yet: the method, whether it met no failure, and its
\* arguments and return value by type (reply and receipt of analyze_receipt,
\* name, rows and total of the sheet's queries, ids and id of get_next_id,
\* names and count of /total without a name).
NoResult ==
    [op |-> "", ok |-> TRUE, reply |-> [kind |-> ""], receipt |-> ReceiptData,
     name |-> <<>>, rows |-> <<>>, total |-> Float(0), ids |-> <<>>, id |-> 0,
     names |-> {}, count |-> 0]

\* The spec's conversation state of a user, read off the program's state.
State(u) ==
    IF conv[u] = NAME THEN "COLLECTING_NAME"
    ELSE IF conv[u] = AMOUNT THEN "COLLECTING_AMOUNT"
    ELSE IF conv[u] = DATE THEN "COLLECTING_DATE"
    ELSE IF conv[u] = CATEGORY THEN "COLLECTING_CATEGORY"
    ELSE IF Has(user_data[u], "receipt_data") THEN "AWAITING_CONFIRMATION"
    ELSE "IDLE"

Init ==
    /\ user_data = [u \in Users |-> EmptyDict]
    /\ conv = [u \in Users |-> END]
    /\ ledger = <<>>
    /\ update_queue = <<>>
    /\ inflight = NoCall
    /\ offered = [u \in Users |-> {}]
    /\ buttons = [u \in Users |-> {}]
    /\ last = NoUpdate
    /\ call = NoResult

\* Application._update_fetcher takes one update and awaits its handler: no
\* update is taken while a handler is suspended.  It takes the head of the
\* queue, or, with nothing waiting, the update that arrives.  A callback
\* query comes from a button of a keyboard the bot has sent to that user.
Take(upd, callback) ==
    /\ inflight = NoCall
    /\ upd.kind = "callback" => upd.data \in buttons[upd.user]
    /\ IF update_queue = <<>> THEN TRUE ELSE upd = Head(update_queue)
    /\ process_update(upd, conv[upd.user])[2] = callback
    /\ update_queue' = IF update_queue = <<>> THEN <<>> ELSE Tail(update_queue)

Seen(upd, callback, result) ==
    [user |-> upd.user, kind |-> upd.kind, data |-> upd.data, text |-> upd.text,
     handler |-> callback, from |-> State(upd.user), result |-> result]

\* An update arrives while a handler is suspended and waits in the queue.
Arrive(upd) ==
    /\ inflight # NoCall
    /\ Len(update_queue) < MaxQueue
    /\ update_queue' = Append(update_queue, upd)
    /\ UNCHANGED <<user_data, conv, ledger, inflight, offered, buttons,
                   last, call>>

\* No handler accepts the update: it is dropped.
Unhandled(upd) ==
    /\ Take(upd, "")
    /\ last' = Seen(upd, "", "")
    /\ UNCHANGED <<user_data, conv, ledger, inflight, offered, buttons, call>>

\* --------------------------------------------------------------- handlers

\* Handlers that keep one session for everybody.
effective_user_shared(upd) == 1

\* update.effective_user: the user whose context.user_data and conversation a
\* handler works on.
effective_user(upd) == upd.user

FullKeyboard == {"save_ai", "edit_manual", "reanalyze", "cancel"}
ManualKeyboard == {"edit_manual", "cancel"}
ReanalyzeKeyboard == {"save_ai", "edit_manual"}
CategoryKeyboard ==
    {"Food", "Shopping", "Transport", "Bills", "Medical", "Entertainment",
     "Business", "Other"}

\* The keyboard handle_photo sends for an analysis.
photo_keyboard(receipt) ==
    IF receipt.store_name # <<>> \/ gt0(receipt.total_amount)
    THEN FullKeyboard
    ELSE ManualKeyboard

\* A dict of literal entries, and the entries copied from user_data with
\* user_data.get(key): a key user_data lacks gives None.
with_copied(base, ud, copies) ==
    LET found == {p \in copies : Has(ud, p[2])}
    IN [k \in (DOMAIN base) \cup {p[1] : p \in found} |->
          IF k \in DOMAIN base THEN base[k]
          ELSE ud[(CHOOSE p \in found : p[1] = k)[2]]]

\* transaction_data of button_handler's save_ai branch.
save_ai_data(ud) ==
    LET receipt_data == ud["receipt_data"]
    IN with_copied(
         [name |-> IF receipt_data.store_name # <<>>
                   THEN receipt_data.store_name ELSE T_Receipt,
          amount |-> receipt_data.total_amount,
          date |-> receipt_data.date,
          category |-> "Shopping",
          store |-> receipt_data.store_name,
          description |-> receipt_data.summary,
          items |-> receipt_data.items,
          confidence |-> receipt_data.confidence,
          currency |-> receipt_data.currency,
          summary |-> receipt_data.summary,
          has_image |-> TRUE],
         ud, {<<"user_id", "user_id">>, <<"user_name", "user_name">>})

\* transaction_data of get_category.
category_data(ud, category) ==
    LET receipt_data == Get(ud, "receipt_data", ReceiptData)
    IN with_copied(
         [category |-> category,
          description |-> receipt_data.summary,
          items |-> receipt_data.items,
          confidence |-> receipt_data.confidence,
          currency |-> receipt_data.currency,
          summary |-> receipt_data.summary,
          has_image |-> Has(ud, "image_bytes")],
         ud, {<<"user_id", "user_id">>, <<"user_name", "user_name">>,
              <<"name", "name">>, <<"amount", "amount">>, <<"date", "date">>,
              <<"store", "name">>})

\* The defaults button_handler's edit_manual branch stores.
seed_defaults(ud) ==
    LET receipt_data == Get(ud, "receipt_data", ReceiptData)
    IN Put(Put(Put(ud,
         "default_name", receipt_data.store_name),
         "default_amount", receipt_data.total_amount),
         "default_date", IF receipt_data.date # <<>> THEN receipt_data.date ELSE Today)

\* handle_photo up to its await of analyze_receipt: the image and the user are
\* stored and the analysis is started.
handle_photo(upd) ==
    LET u == effective_user(upd)
    IN /\ Take(upd, "handle_photo")
       /\ user_data' = [user_data EXCEPT ![u] =
              Put(Put(Put(@, "image_bytes", upd.data), "user_id", u),
                  "user_name", FullName(u))]
       /\ inflight' = [user |-> u, op |-> "handle_photo", image |-> upd.data]
       /\ last' = Seen(upd, "handle_photo", "")
       /\ UNCHANGED <<conv, ledger, offered, buttons, call>>

\* analyze_receipt returns to the handler that awaits it (handle_photo, or
\* button_handler's reanalyze branch), which stores the result and sends the
\* keyboard.
analyze_return(reply) ==
    LET u == inflight.user
        receipt_data == analyze_receipt(reply)
    IN /\ inflight # NoCall
       /\ user_data' = [user_data EXCEPT ![u] = Put(@, "receipt_data", receipt_data)]
       /\ offered' = [offered EXCEPT ![u] =
              IF inflight.op = "handle_photo" THEN photo_keyboard(receipt_data)
              ELSE ReanalyzeKeyboard]
       /\ buttons' = [buttons EXCEPT ![u] = @ \cup offered'[u]]
       /\ inflight' = NoCall
       /\ last' = [last EXCEPT !.result = "analyzed"]
       /\ UNCHANGED <<conv, ledger, update_queue, call>>

\* button_handler, query.data == "save_ai".
save_ai(upd, io) ==
    LET u == effective_user(upd)
        ud == user_data[u]
    IN /\ upd.data = "save_ai"
       /\ Take(upd, "button_handler")
       /\ IF ~Has(ud, "receipt_data")
          THEN /\ last' = Seen(upd, "button_handler", "no_receipt")
               /\ UNCHANGED <<user_data, ledger>>
          ELSE /\ ledger' = add_transaction(ledger, save_ai_data(ud), io)
               /\ user_data' = [user_data EXCEPT ![u] = clear(@)]
               /\ last' = Seen(upd, "button_handler",
                              IF add_transaction_ok(io)
                              THEN "saved" ELSE "not_saved")
       /\ UNCHANGED <<conv, inflight, offered, buttons, call>>

\* button_handler, query.data == "edit_manual"; it returns NAME.
edit_manual(upd) ==
    LET u == effective_user(upd)
        where == process_update(upd, conv[u])[1]
    IN /\ upd.data = "edit_manual"
       /\ Take(upd, "button_handler")
       /\ user_data' = [user_data EXCEPT ![u] = seed_defaults(@)]
       /\ conv' = [conv EXCEPT ![u] = next_state(where, @, NAME)]
       /\ last' = Seen(upd, "button_handler", "")
       /\ UNCHANGED <<ledger, inflight, offered, buttons, call>>

\* button_handler, query.data == "reanalyze", up to its await.
reanalyze(upd) ==
    LET u == effective_user(upd)
        ud == user_data[u]
    IN /\ upd.data = "reanalyze"
       /\ Take(upd, "button_handler")
       /\ inflight' = IF Has(ud, "image_bytes")
                      THEN [user |-> u, op |-> "reanalyze", image |-> ud["image_bytes"]]
                      ELSE NoCall
       /\ last' = Seen(upd, "button_handler",
                       IF Has(ud, "image_bytes") THEN "" ELSE "no_image")
       /\ UNCHANGED <<user_data, conv, ledger, offered, buttons, call>>

\* button_handler, query.data == "cancel".
cancel_button(upd) ==
    LET u == effective_user(upd)
    IN /\ upd.data = "cancel"
       /\ Take(upd, "button_handler")
       /\ user_data' = [user_data EXCEPT ![u] = clear(@)]
       /\ last' = Seen(upd, "button_handler", "")
       /\ UNCHANGED <<conv, ledger, inflight, offered, buttons, call>>

\* add_manual (/add); it returns NAME.
add_manual(upd) ==
    LET u == effective_user(upd)
    IN /\ Take(upd, "add_manual")
       /\ user_data' = [user_data EXCEPT ![u] =
              Put(Put(@, "user_id", u), "user_name", FullName(u))]
       /\ conv' = [conv EXCEPT ![u] = next_state("conv", @, NAME)]
       /\ last' = Seen(upd, "add_manual", "")
       /\ UNCHANGED <<ledger, inflight, offered, buttons, call>>

\* get_name: <<user_data afterwards, state returned>>.
name_step(ud, text) ==
    LET typed == strip(text)
        name == IF typed = <<>> THEN Get(ud, "default_name", <<>>) ELSE typed
    IN IF name = <<>> THEN <<ud, NAME>> ELSE <<Put(ud, "name", name), AMOUNT>>

\* get_amount: <<user_data afterwards, state returned>>.
amount_step(ud, text) ==
    LET amount_text == strip(text)
        cleaned == strip(remove(remove(amount_text, "$"), ","))
        parsed == amount_text = <<>> \/ float_ok(cleaned)
        amount == IF amount_text = <<>> THEN Get(ud, "default_amount", Float(0))
                  ELSE float_value(cleaned)
    IN IF ~parsed THEN <<ud, AMOUNT>>
       ELSE IF le0(amount) THEN <<ud, AMOUNT>>
       ELSE <<Put(ud, "amount", amount), DATE>>

\* A get_date that trusts the seeded default without parsing it.
date_step_trusting(ud, text) ==
    LET typed == strip(text)
        date_text == IF typed = <<>> THEN Get(ud, "default_date", <<>>)
                     ELSE IF lower(typed) = T_today THEN Today
                     ELSE typed
    IN IF typed = <<>> \/ strptime_ok(date_text)
       THEN <<Put(ud, "date", date_text), CATEGORY>>
       ELSE <<ud, DATE>>

\* get_date: <<user_data afterwards, state returned>>.
date_step(ud, text) ==
    LET typed == strip(text)
        date_text == IF typed = <<>> THEN Get(ud, "default_date", <<>>)
                     ELSE IF lower(typed) = T_today THEN Today
                     ELSE typed
    IN IF strptime_ok(date_text) THEN <<Put(ud, "date", date_text), CATEGORY>>
       ELSE <<ud, DATE>>

get_name(upd) ==
    LET u == effective_user(upd)
        step == name_step(user_data[u], upd.text)
    IN /\ Take(upd, "get_name")
       /\ user_data' = [user_data EXCEPT ![u] = step[1]]
       /\ conv' = [conv EXCEPT ![u] = next_state("conv", @, step[2])]
       /\ last' = Seen(upd, "get_name", "")
       /\ UNCHANGED <<ledger, inflight, offered, buttons, call>>

get_amount(upd) ==
    LET u == effective_user(upd)
        step == amount_step(user_data[u], upd.text)
    IN /\ Take(upd, "get_amount")
       /\ user_data' = [user_data EXCEPT ![u] = step[1]]
       /\ conv' = [conv EXCEPT ![u] = next_state("conv", @, step[2])]
       /\ last' = Seen(upd, "get_amount", "")
       /\ UNCHANGED <<ledger, inflight, offered, buttons, call>>

\* get_date; with a date accepted it sends the category keyboard.
get_date(upd) ==
    LET u == effective_user(upd)
        step == date_step(user_data[u], upd.text)
    IN /\ Take(upd, "get_date")
       /\ user_data' = [user_data EXCEPT ![u] = step[1]]
       /\ conv' = [conv EXCEPT ![u] = next_state("conv", @, step[2])]
       /\ offered' = [offered EXCEPT ![u] = IF step[2] = CATEGORY THEN CategoryKeyboard ELSE @]
       /\ buttons' = [buttons EXCEPT ![u] = @ \cup offered'[u]]
       /\ last' = Seen(upd, "get_date", "")
       /\ UNCHANGED <<ledger, inflight, call>>

\* get_category.  When the row was added and user_data holds no amount, the
\* reply's f"{transaction_data['amount']:.2f}" raises TypeError: the handler
\* ends before user_data.clear() and the conversation keeps its state.
get_category(upd, io) ==
    LET u == effective_user(upd)
        ud == Put(user_data[u], "category", upd.data)
        transaction_data == category_data(ud, upd.data)
        added == add_transaction_ok(io)
        raises == added /\ ~Has(transaction_data, "amount")
    IN /\ Take(upd, "get_category")
       /\ ledger' = add_transaction(ledger, transaction_data, io)
       /\ user_data' = [user_data EXCEPT ![u] = IF raises THEN ud ELSE clear(ud)]
       /\ conv' = [conv EXCEPT ![u] = IF raises THEN @ ELSE next_state("conv", @, END)]
       /\ last' = Seen(upd, "get_category",
                       IF raises THEN "raised"
                       ELSE IF added THEN "saved" ELSE "not_saved")
       /\ UNCHANGED <<inflight, offered, buttons, call>>

\* cancel (/cancel, the conversation's fallback); it returns END.
cancel(upd) ==
    LET u == effective_user(upd)
    IN /\ Take(upd, "cancel")
       /\ user_data' = [user_data EXCEPT ![u] = clear(@)]
       /\ conv' = [conv EXCEPT ![u] = next_state("conv", @, END)]
       /\ last' = Seen(upd, "cancel", "")
       /\ UNCHANGED <<ledger, inflight, offered, buttons, call>>

\* The fetcher takes an update and runs its handler, up to the handler's end
\* or to its await of analyze_receipt.  The updates are drawn from U, what the
\* sheet does from IO.
Dispatch(U, IO) ==
    \/ \E upd \in U : handle_photo(upd)
    \/ \E upd \in U : \E io \in IoOutcomes(ledger) \cap IO : save_ai(upd, io)
    \/ \E upd \in U : edit_manual(upd)
    \/ \E upd \in U : reanalyze(upd)
    \/ \E upd \in U : cancel_button(upd)
    \/ \E upd \in U : add_manual(upd)
    \/ \E upd \in U : get_name(upd)
    \/ \E upd \in U : get_amount(upd)
    \/ \E upd \in U : get_date(upd)
    \/ \E upd \in U : \E io \in IoOutcomes(ledger) \cap IO : get_category(upd, io)
    \/ \E upd \in U : cancel(upd)
    \/ \E upd \in U : Unhandled(upd)

\* One step of the bot.  While a handler is suspended the updates that arrive
\* are drawn from W and the backend's answers from R.
Step(U, W, R, IO) ==
    \/ Dispatch(U, IO)
    \/ \E reply \in R : analyze_return(reply)
    \/ \E upd \in W : Arrive(upd)

AllIo == {"ok", "read_fails", "append_fails", "no_sheet"}

\* One user who sends every kind of update, with three texts; every kind of
\* backend answer and of sheet failure.
OneUser ==
    {upd \in Updates :
        upd.user = 1 /\ upd.data # "Other" /\ upd.text \in {<<>>, T_Blank, T_Seven, T_Date}}

Next ==
    Step(OneUser, {upd \in OneUser : upd.kind = "command"},
         {[kind |-> "raises"], R_Good, R_NoConfidence}, AllIo)

Spec == Init /\ [][Next]_vars

\* One user who sends every kind of update, with two texts, and whose /cancel
\* may arrive while an analysis is awaited; the backend reads every receipt;
\* the sheet fails or not.
CommitUpdates == {upd \in OneUser : upd.text \in {<<>>, T_Seven, T_Date}}

NextCommit ==
    Step(CommitUpdates, {upd \in CommitUpdates : upd.data = "cancel" /\ upd.kind = "command"},
         {R_Good}, {"ok", "append_fails", "no_sheet"})

SpecCommit == Init /\ [][NextCommit]_vars

\* Two users at once: user 1 sends photos and presses the buttons, user 2
\* enters a transaction by hand.
TwoUsers ==
    {upd \in Updates : upd.user = 1 /\ (upd.kind = "photo" \/ upd.data \in ButtonPattern)}
    \cup {upd \in Updates :
            /\ upd.user = 2
            /\ upd.kind \in {"command", "text", "callback"}
            /\ upd.text \in {<<>>, T_Seven, T_Date}
            /\ upd.data \in {"", "add", "cancel", "Food"}}

NextUsers ==
    Step(TwoUsers, {upd \in TwoUsers : upd.kind = "command"},
         {R_Good}, {"ok", "append_fails"})

SpecUsers == Init /\ [][NextUsers]_vars

\* One user who sends photos, accepts or edits the candidate and enters
\* transactions by hand, and never presses reanalyze or the cancel button.
\* The amounts typed are blank, a number written with '$' and ',', a negative
\* number, "nan" and a text that is no number; the backend reads a negative
\* total or NaN.
AmountUpdates ==
    {upd \in Updates :
        /\ upd.user = 1
        /\ upd.data \in {"img1", "", "add", "cancel", "save_ai", "edit_manual", "Food"}
        /\ upd.text \in {<<>>, T_Blank, T_Dollar, T_Minus, T_nan, T_Date}}

AmountIo == {"ok", "append_fails"}

NextAmount ==
    \/ \E upd \in AmountUpdates : handle_photo(upd)
    \/ \E reply \in {R_Negative, R_NaN} : analyze_return(reply)
    \/ \E upd \in AmountUpdates :
         \E io \in IoOutcomes(ledger) \cap AmountIo : save_ai(upd, io)
    \/ \E upd \in AmountUpdates : edit_manual(upd)
    \/ \E upd \in AmountUpdates : add_manual(upd)
    \/ \E upd \in AmountUpdates : get_name(upd)
    \/ \E upd \in AmountUpdates : get_amount(upd)
    \/ \E upd \in AmountUpdates : get_date(upd)
    \/ \E upd \in AmountUpdates :
         \E io \in IoOutcomes(ledger) \cap AmountIo : get_category(upd, io)
    \/ \E upd \in AmountUpdates : cancel(upd)
    \/ \E upd \in AmountUpdates : Unhandled(upd)

SpecAmount == Init /\ [][NextAmount]_vars

\* One user who sends photos, edits the candidate and enters transactions by
\* hand up to the category keyboard.  The dates typed are blank, "Today", a
\* date, a day the month lacks and a text that is no date; the backend reads
\* a date or a text that is none.
DateUpdates ==
    {upd \in Updates :
        /\ upd.user = 1
        /\ upd.data \in {"img1", "", "add", "cancel", "edit_manual"}
        /\ upd.text \in {<<>>, T_Blank, T_Seven, T_Today, T_Date, T_BadDate}}

NextDate ==
    \/ \E upd \in DateUpdates : handle_photo(upd)
    \/ \E reply \in {R_Good, R_BadDate} : analyze_return(reply)
    \/ \E upd \in DateUpdates : edit_manual(upd)
    \/ \E upd \in DateUpdates : add_manual(upd)
    \/ \E upd \in DateUpdates : get_name(upd)
    \/ \E upd \in DateUpdates : get_amount(upd)
    \/ \E upd \in DateUpdates : get_date(upd)
    \/ \E upd \in DateUpdates : cancel(upd)
    \/ \E upd \in DateUpdates : Unhandled(upd)

SpecDate == Init /\ [][NextDate]_vars

\* One user who sends photos and presses the buttons of their messages; the
\* backend reads a receipt without a date or with a text that is no date, or
\* fails.
AcceptUpdates ==
    {upd \in Updates : upd.user = 1 /\ (upd.kind = "photo" \/ upd.data \in ButtonPattern)}

NextAccept ==
    \/ \E upd \in AcceptUpdates : handle_photo(upd)
    \/ \E reply \in {R_NoConfidence, R_BadDate, [kind |-> "raises"]} : analyze_return(reply)
    \/ \E upd \in AcceptUpdates :
         \E io \in IoOutcomes(ledger) \cap AmountIo : save_ai(upd, io)
    \/ \E upd \in AcceptUpdates : edit_manual(upd)
    \/ \E upd \in AcceptUpdates : reanalyze(upd)
    \/ \E upd \in AcceptUpdates : cancel_button(upd)
    \/ \E upd \in {u \in AcceptUpdates : u.kind = "photo"} : Arrive(upd)

SpecAccept == Init /\ [][NextAccept]_vars

\* Two users who commit in turn: user 1 sends photos and accepts the
\* candidate, user 2 enters transactions by hand, also while user 1's analysis
\* is awaited.  The id column is always read; an append may fail.
PairUpdates ==
    {upd \in Updates :
        /\ upd.user = 1
        /\ upd.kind = "photo" \/ upd.data = "save_ai"}
    \cup {upd \in Updates :
            /\ upd.user = 2
            /\ upd.kind \in {"command", "text", "callback"}
            /\ upd.text \in {<<>>, T_Seven, T_Date}
            /\ upd.data \in {"", "add", "Food"}}

PairIo == IF Len(ledger) < MaxPairRows THEN {"ok", "append_fails"} ELSE {"append_fails"}

NextPair ==
    \/ \E upd \in PairUpdates : handle_photo(upd)
    \/ analyze_return(R_Good)
    \/ \E upd \in PairUpdates : \E io \in PairIo : save_ai(upd, io)
    \/ \E upd \in PairUpdates : add_manual(upd)
    \/ \E upd \in PairUpdates : get_name(upd)
    \/ \E upd \in PairUpdates : get_amount(upd)
    \/ \E upd \in PairUpdates : get_date(upd)
    \/ \E upd \in PairUpdates : \E io \in PairIo : get_category(upd, io)
    \/ \E upd \in PairUpdates : Unhandled(upd)
    \/ \E upd \in {u \in PairUpdates : u.user = 2} : Arrive(upd)

SpecPair == Init /\ [][NextPair]_vars

\* analyze_receipt called by itself on a backend answer.
analyze(reply) ==
    /\ call' = [NoResult EXCEPT !.op = "analyze_receipt",
                                !.ok = analyze_receipt_returns(reply),
                                !.reply = reply,
                                !.receipt = analyze_receipt(reply)]
    /\ UNCHANGED <<user_data, conv, ledger, update_queue, inflight, offered,
                   buttons, last>>

\* The analyzer alone, given every backend answer.
NextAnalyze == \E reply \in Replies : analyze(reply)

SpecAnalyze == Init /\ [][NextAnalyze]_vars

\* The sessions get_category commits when the sheet manager is called by
\* itself: a name in two spellings and another name, an amount or none.
SheetSessions ==
    {[user_id |-> 1, user_name |-> FullName(1), name |-> n, amount |-> Float(7),
      date |-> T_Date] : n \in {T_Bob, T_Shop}}
    \cup {[user_id |-> 1, user_name |-> FullName(1), name |-> T_BOB,
           amount |-> Float(2), date |-> T_Date],
          [user_id |-> 1, user_name |-> FullName(1), name |-> T_BOB, date |-> T_Date]}

\* A reply with a store and a total of 0, and the session that holds its
\* candidate.
R_ZeroTotal ==
    [kind |-> "object",
     data |-> [store_name |-> T_Shop, total_amount |-> JNumber(0), date |-> T_Date]]

ZeroTotalSession ==
    [user_id |-> 1, user_name |-> FullName(1), image_bytes |-> "img1",
     receipt_data |-> analyze_receipt(R_ZeroTotal)]

\* The transactions committed: by get_category for the sessions above and by
\* save_ai for the candidate whose total is 0.
SheetData ==
    {category_data(ud, "Food") : ud \in SheetSessions}
    \cup {save_ai_data(ZeroTotalSession)}

\* The names asked for: None, and four texts.
QueryNames == {<<>>, T_Bob, T_BOB, lower(T_Bob), T_Seven}

\* add_transaction called on the sheet as it is.
commit(data, io) ==
    /\ Len(ledger) < MaxSheet
    /\ ledger' = add_transaction(ledger, data, io)
    /\ call' = [NoResult EXCEPT !.op = "add_transaction",
                                !.ok = add_transaction_ok(io)]
    /\ UNCHANGED <<user_data, conv, update_queue, inflight, offered, buttons, last>>

\* get_transactions(name), as /search and /stats call it.
transactions_query(name, read_ok) ==
    /\ call' = [NoResult EXCEPT !.op = "get_transactions",
                                !.ok = read_ok,
                                !.name = name,
                                !.rows = get_transactions(ledger, name, read_ok)]
    /\ UNCHANGED <<user_data, conv, ledger, update_queue, inflight, offered,
                   buttons, last>>

\* get_total(name), as /total and /list call it.
total_query(name, read_ok) ==
    /\ call' = [NoResult EXCEPT !.op = "get_total",
                                !.ok = read_ok,
                                !.name = name,
                                !.total = get_total(ledger, name, read_ok)]
    /\ UNCHANGED <<user_data, conv, ledger, update_queue, inflight, offered,
                   buttons, last>>

\* /total without a name: get_names() and the count of transactions it
\* reports.
names_query(read_ok) ==
    /\ call' = [NoResult EXCEPT !.op = "get_names",
                                !.ok = read_ok,
                                !.names = get_names(ledger, read_ok),
                                !.count = count_over(ledger, get_names(ledger, read_ok),
                                                     read_ok)]
    /\ UNCHANGED <<user_data, conv, ledger, update_queue, inflight, offered,
                   buttons, last>>

\* /stats, as stats_command works on the sheet: whether it ends with a reply.
stats_query(read_ok) ==
    /\ call' = [NoResult EXCEPT !.op = "stats_command",
                                !.ok = stats_command(ledger, read_ok)
                                         \in {"no_transactions", "statistics"},
                                !.rows = get_transactions(ledger, <<>>, read_ok)]
    /\ UNCHANGED <<user_data, conv, ledger, update_queue, inflight, offered,
                   buttons, last>>

\* The sheet manager alone: commits, which the sheet takes or not, and
\* queries, whose read of the sheet succeeds or not.
NextSheet ==
    \/ \E data \in SheetData :
         \E io \in {"ok", "read_fails", "append_fails"} : commit(data, io)
    \/ \E name \in QueryNames : \E read_ok \in BOOLEAN :
         transactions_query(name, read_ok)
    \/ \E name \in QueryNames : \E read_ok \in BOOLEAN : total_query(name, read_ok)
    \/ \E read_ok \in BOOLEAN : stats_query(read_ok)
    \/ \E read_ok \in BOOLEAN : names_query(read_ok)

SpecSheet == Init /\ [][NextSheet]_vars

\* The cells an id column holds: ids, a word, a negative number, an empty
\* cell and a superscript digit.
IdCells == {<<"1">>, <<"2">>, <<"5">>, <<"x">>, T_Minus, <<>>, <<SuperscriptTwo>>}

IdColumns == UNION {[1..n -> IdCells] : n \in 0..MaxIds}

\* get_next_id called on an id column.
next_id_query(ids) ==
    /\ call' = [NoResult EXCEPT !.op = "get_next_id",
                                !.ids = ids,
                                !.id = get_next_id_cells(ids)]
    /\ UNCHANGED <<user_data, conv, ledger, update_queue, inflight, offered,
                   buttons, last>>

NextIds == \E ids \in IdColumns : next_id_query(ids)

SpecIds == Init /\ [][NextIds]_vars

\* ----------------------------------------------------------------- claims

Collecting ==
    {"COLLECTING_NAME", "COLLECTING_AMOUNT", "COLLECTING_DATE", "COLLECTING_CATEGORY"}

\* The user's session is empty and the user is in IDLE.
Idle(u) == user_data[u] = EmptyDict /\ conv[u] = END

\* C1: after "edit" (callback edit_manual) pressed in AWAITING_CONFIRMATION the
\* session holds default_name, default_amount and default_date taken from the
\* candidate and the conversation is in COLLECTING_NAME, where get_name takes
\* the next text.
C1_EditEntersCollectingName ==
    (last.kind = "callback" /\ last.data = "edit_manual"
        /\ last.from = "AWAITING_CONFIRMATION")
    => LET ud == user_data[last.user]
       IN /\ {"default_name", "default_amount", "default_date"} \subseteq DOMAIN ud
          /\ ud["default_name"] = ud["receipt_data"].store_name
          /\ ud["default_amount"] = ud["receipt_data"].total_amount
          /\ conv[last.user] = NAME

\* C2: a /cancel command taken while the user is in any non-IDLE state leaves
\* the session empty and the user in IDLE.
C2_CancelFromAnyState ==
    (last.kind = "command" /\ last.data = "cancel" /\ last.from # "IDLE")
    => Idle(last.user)

\* C3: when an analysis (after a photo or a re-analyze) has left an extraction
\* of confidence 0 in the session, the keyboard sent with it does not offer
\* save_ai.
C3_NoAcceptAtZeroConfidence ==
    (last.result = "analyzed"
        /\ user_data[last.user]["receipt_data"].confidence = Float(0))
    => "save_ai" \notin offered[last.user]

\* C4: no row of the ledger lacks its name, its amount or its date.
C4_RowsComplete ==
    \A i \in 1..Len(ledger) :
        /\ Has(ledger[i], "Name") /\ ledger[i]["Name"] # <<>>
        /\ Has(ledger[i], "Amount")
        /\ Has(ledger[i], "Date") /\ ledger[i]["Date"] # <<>>

\* C5: once a photo has been handled, whatever the state it arrived in, the
\* user is in AWAITING_CONFIRMATION for it and the session holds no name,
\* amount, date or seeded default of the flow it interrupted.
C5_PhotoReplacesSession ==
    (last.kind = "photo" /\ last.result = "analyzed")
    => LET u == last.user
       IN /\ conv[u] = END
          /\ Has(user_data[u], "receipt_data")
          /\ DOMAIN user_data[u] \cap
               {"name", "amount", "date", "default_name", "default_amount",
                "default_date"} = {}

\* C6: an /add command taken during an unfinished flow puts the user in
\* COLLECTING_NAME of a new session that holds nothing of the earlier flow.
C6_AddSupersedes ==
    (last.kind = "command" /\ last.data = "add" /\ last.from # "IDLE")
    => /\ conv[last.user] = NAME
       /\ DOMAIN user_data[last.user] \subseteq {"user_id", "user_name"}

\* The row is the one "accept" builds for user u from candidate c.
AcceptedRow(row, c, u) ==
    /\ row["Name"] = (IF c.store_name = <<>> THEN T_Receipt ELSE c.store_name)
    /\ row["Amount"] = c.total_amount
    /\ row["Date"] = c.date
    /\ row["Store"] = c.store_name
    /\ row["AI Summary"] = c.summary
    /\ row["AI Confidence"] = c.confidence
    /\ row["Currency"] = c.currency
    /\ row["Items Count"] = Len(c.items)
    /\ row["User ID"] = u
    /\ row["Has Image"] = "yes"

\* C7: "accept" (save_ai) pressed in AWAITING_CONFIRMATION empties the session
\* and leaves the user in IDLE; when add_transaction succeeds the ledger grows
\* by exactly one row, built from the candidate the session held, and
\* otherwise by none; a save_ai that finds no candidate (a second click)
\* appends nothing.
C7_AcceptAppendsOnce ==
    [][(last'.kind = "callback" /\ last'.data = "save_ai")
        => LET u == last'.user
           IN /\ State(u) = "AWAITING_CONFIRMATION"
                 => /\ user_data'[u] = EmptyDict
                    /\ conv'[u] = END
                    /\ last'.result = "saved"
                       => /\ Len(ledger') = Len(ledger) + 1
                          /\ SubSeq(ledger', 1, Len(ledger)) = ledger
                          /\ AcceptedRow(ledger'[Len(ledger')],
                                         user_data[u]["receipt_data"], u)
                    /\ last'.result # "saved" => ledger' = ledger
              /\ ~Has(user_data[u], "receipt_data") => ledger' = ledger]_vars

C7_Witness ==
    /\ last.data = "save_ai"
    /\ last.from = "AWAITING_CONFIRMATION"
    /\ last.result = "saved"
    /\ Len(ledger) = 1
    /\ Idle(last.user)

\* C8: when add_transaction does not succeed during "accept" pressed in
\* AWAITING_CONFIRMATION or during get_category's commit, the ledger is left
\* as it was, the session is emptied and the user is in IDLE.
C8_FailedCommitClears ==
    [][(/\ last'.result = "not_saved"
        /\ \/ last'.data = "save_ai" /\ State(last'.user) = "AWAITING_CONFIRMATION"
           \/ last'.handler = "get_category")
        => /\ ledger' = ledger
           /\ user_data'[last'.user] = EmptyDict
           /\ conv'[last'.user] = END]_vars

C8_Witness ==
    /\ last.handler = "get_category"
    /\ last.result = "not_saved"
    /\ Idle(last.user)
    /\ ledger = <<>>

\* The cells of a row that come from the session come from the session ud.
RowFromSession(row, ud, callback) ==
    LET c == Get(ud, "receipt_data", ReceiptData)
    IN /\ Has(row, "User ID") => Has(ud, "user_id") /\ row["User ID"] = ud["user_id"]
       /\ Has(row, "Username")
          => Has(ud, "user_name") /\ row["Username"] = ud["user_name"]
       /\ row["AI Summary"] = c.summary
       /\ row["AI Confidence"] = c.confidence
       /\ IF callback = "get_category"
          THEN /\ Has(row, "Name") => Has(ud, "name") /\ row["Name"] = ud["name"]
               /\ Has(row, "Amount") => Has(ud, "amount") /\ row["Amount"] = ud["amount"]
               /\ Has(row, "Date") => Has(ud, "date") /\ row["Date"] = ud["date"]
          ELSE /\ row["Name"] \in {c.store_name, T_Receipt}
               /\ row["Amount"] = c.total_amount
               /\ row["Date"] = c.date

\* C9: a step taken for one user (the update's handler, or the return of the
\* analysis it awaits) leaves every other user's session data, conversation
\* state and keyboard as they were, and a row it appends is filled from that
\* user's own session.
C9_SessionsPartitioned ==
    [][/\ \A u \in Users :
            u # last'.user
            => /\ user_data'[u] = user_data[u]
               /\ conv'[u] = conv[u]
               /\ offered'[u] = offered[u]
       /\ ledger' # ledger
          => /\ Len(ledger') = Len(ledger) + 1
             /\ RowFromSession(ledger'[Len(ledger')], user_data[last'.user],
                               last'.handler)]_vars

C9_Witness ==
    /\ Len(ledger) = 1
    /\ last.user = 2
    /\ last.result = "saved"
    /\ ledger[1]["User ID"] = 2
    /\ Has(user_data[1], "receipt_data")

\* C10: while one user's analysis is outstanding, the fetcher can take the
\* waiting update of another user.
C10_DispatchNotBlocked ==
    (/\ inflight # NoCall
     /\ update_queue # <<>>
     /\ Head(update_queue).user # inflight.user)
    => ENABLED Dispatch({Head(update_queue)}, AllIo)

\* C11: a /cancel sent while the user's analysis is outstanding waits in the
\* queue; the step that takes it leaves the user's session empty and the user
\* in IDLE, so that the analysis cannot be accepted afterwards.
C11_CancelDuringAnalysis ==
    [][(/\ update_queue # <<>>
        /\ Head(update_queue).kind = "command"
        /\ Head(update_queue).data = "cancel"
        /\ update_queue' = Tail(update_queue))
       => LET u == Head(update_queue).user
          IN /\ user_data'[u] = EmptyDict
             /\ conv'[u] = END]_vars

\* The backend answers the claim lists as failures: no backend, a call that
\* raises, a reply that is not JSON or is JSON but no object, a total_amount
\* or confidence that is null or a text float() does not read.
C12_Failure(reply) ==
    \/ reply.kind \in {"unavailable", "raises", "text", "array"}
    \/ /\ reply.kind = "object"
       /\ \E k \in {"total_amount", "confidence"} \cap DOMAIN reply.data :
            \/ reply.data[k].json = "null"
            \/ reply.data[k].json = "string" /\ ~float_ok(reply.data[k].s)

\* C12: analyze_receipt returns a record for every backend answer, and for
\* every failure the record is the default one: confidence 0, empty
\* store_name, total_amount 0, empty date, no items, empty summary.
C12_AnalyzeNeverRaises ==
    call.op = "analyze_receipt"
    => /\ call.ok
       /\ DOMAIN call.receipt = DOMAIN ReceiptData
       /\ C12_Failure(call.reply)
          => /\ call.receipt.confidence = Float(0)
             /\ call.receipt.store_name = <<>>
             /\ call.receipt.total_amount = Float(0)
             /\ call.receipt.date = <<>>
             /\ call.receipt.items = <<>>
             /\ call.receipt.summary = ""

C12_Witness ==
    /\ call.op = "analyze_receipt"
    /\ call.reply.kind = "object"
    /\ Has(call.reply.data, "store_name")
    /\ Has(call.reply.data, "total_amount")
    /\ call.reply.data["total_amount"].json = "null"
    /\ call.receipt = ReceiptData

\* C13: the ids of the rows are strictly increasing in insertion order, hence
\* pairwise distinct.
C13_IdsIncrease ==
    \A i, j \in 1..Len(ledger) : i < j => ledger[i]["ID"] < ledger[j]["ID"]

\* C14: every row of the ledger has an amount that is a number >= 0.
C14_AmountsNotNegative ==
    \A i \in 1..Len(ledger) :
        Has(ledger[i], "Amount")
        => ~ledger[i]["Amount"].nan /\ ledger[i]["Amount"].v >= 0

\* Two texts are equal ignoring case.
EqIgnoreCase(a, b) ==
    /\ Len(a) = Len(b)
    /\ \A i \in 1..Len(a) :
          \/ a[i] = b[i]
          \/ \E k \in 1..26 : {a[i], b[i]} = {UpperCase[k], LowerCase[k]}

\* The rows of the sheet a query for name is about: all of them for no name.
Matching(rows, name) ==
    IF name = <<>> THEN 1..Len(rows)
    ELSE {i \in 1..Len(rows) : EqIgnoreCase(Get(rows[i], "Name", <<>>), name)}

\* ret is the rows at the indexes in M, in the order of the sheet.
InOrder(rows, M, ret) ==
    /\ Len(ret) = Cardinality(M)
    /\ \E f \in [1..Len(ret) -> M] :
          /\ \A a, b \in 1..Len(ret) : a < b => f[a] < f[b]
          /\ \A k \in 1..Len(ret) : ret[k] = rows[f[k]]

\* C15: a get_transactions(name) whose read of the sheet succeeds leaves the
\* sheet as it was and returns, in insertion order, exactly the rows whose
\* Name equals name ignoring case, or every row when no name is given.
C15_TransactionsFiltered ==
    [][(call'.op = "get_transactions" /\ call'.ok)
       => /\ ledger' = ledger
          /\ InOrder(ledger', Matching(ledger', call'.name), call'.rows)]_vars

C15_Witness ==
    /\ call.op = "get_transactions"
    /\ call.ok
    /\ call.name = T_BOB
    /\ Len(ledger) = 3
    /\ ledger[1]["Name"] = T_Bob
    /\ ledger[2]["Name"] = T_Shop
    /\ ledger[3]["Name"] = T_BOB
    /\ call.rows = <<ledger[1], ledger[3]>>

\* The sum of the amounts of the rows at the indexes in M.
RECURSIVE AmountOver(_, _)
AmountOver(rows, M) ==
    IF M = {} THEN 0
    ELSE LET i == CHOOSE x \in M : TRUE
         IN (IF Has(rows[i], "Amount") THEN rows[i]["Amount"].v ELSE 0)
            + AmountOver(rows, M \ {i})

\* C16: a get_total(name) whose read of the sheet succeeds returns the sum of
\* Amount over the rows get_transactions(name) returns, 0 when there is none,
\* and leaves the sheet as it was; the value depends on the sheet and the name
\* alone, so a second call with no commit in between returns it again.
C16_TotalIsSum ==
    [][(call'.op = "get_total" /\ call'.ok)
       => LET M == Matching(ledger', call'.name)
          IN /\ ledger' = ledger
             /\ call'.total = Float(AmountOver(ledger', M))
             /\ M = {} => call'.total = Float(0)]_vars

C16_Witness ==
    /\ call.op = "get_total"
    /\ call.ok
    /\ call.name = lower(T_Bob)
    /\ Len(ledger) = 3
    /\ \E i \in Matching(ledger, call.name) : ~Has(ledger[i], "Amount")
    /\ \E i \in 1..3 : i \notin Matching(ledger, call.name) /\ Has(ledger[i], "Amount")
    /\ call.total = Float(7)

\* C17: get_amount given a text that is not blank stores the amount and moves
\* to COLLECTING_DATE when the text, '$' and ',' removed, parses to a number
\* greater than 0; otherwise it leaves the session as it was and the user in
\* COLLECTING_AMOUNT.
C17_AmountValidated ==
    [][(last'.handler = "get_amount" /\ strip(last'.text) # <<>>)
       => LET u == last'.user
              cleaned == strip(remove(remove(strip(last'.text), "$"), ","))
          IN IF float_ok(cleaned) /\ gt0(float_value(cleaned))
             THEN /\ user_data'[u] = Put(user_data[u], "amount", float_value(cleaned))
                  /\ conv'[u] = DATE
             ELSE /\ user_data'[u] = user_data[u]
                  /\ conv'[u] = AMOUNT]_vars

\* C18: get_amount given a blank text takes the seeded default amount and moves
\* to COLLECTING_DATE only when that default is greater than 0, and otherwise
\* leaves the session as it was and the user in COLLECTING_AMOUNT; and no row
\* get_category appends has an amount <= 0.
C18_DefaultAmountPositive ==
    [][/\ (last'.handler = "get_amount" /\ strip(last'.text) = <<>>)
          => LET u == last'.user
                 default_amount == Get(user_data[u], "default_amount", Float(0))
             IN IF gt0(default_amount)
                THEN /\ user_data'[u] = Put(user_data[u], "amount", default_amount)
                     /\ conv'[u] = DATE
                ELSE /\ user_data'[u] = user_data[u]
                     /\ conv'[u] = AMOUNT
       /\ (last'.handler = "get_category" /\ Len(ledger') = Len(ledger) + 1)
          => LET row == ledger'[Len(ledger')]
             IN Has(row, "Amount") => ~le0(row["Amount"])]_vars

\* The date get_date validates for a text: the seeded default for a blank
\* text, the current date for "today" in any letter case, else the text.
ResolvedDate(ud, text) ==
    IF strip(text) = <<>> THEN Get(ud, "default_date", <<>>)
    ELSE IF EqIgnoreCase(strip(text), T_today) THEN Today
    ELSE strip(text)

\* C19: get_date stores the resolved date and moves to COLLECTING_CATEGORY
\* when it parses as YYYY-MM-DD, and otherwise stores nothing and leaves the
\* user in COLLECTING_DATE.
C19_DateValidated ==
    [][last'.handler = "get_date"
       => LET u == last'.user
              date_text == ResolvedDate(user_data[u], last'.text)
          IN IF strptime_ok(date_text)
             THEN /\ user_data'[u] = Put(user_data[u], "date", date_text)
                  /\ conv'[u] = CATEGORY
             ELSE /\ user_data'[u] = user_data[u]
                  /\ conv'[u] = DATE]_vars

\* A blank text met a seeded default that is no date: the user stays in
\* COLLECTING_DATE and no date is stored.
C19_Witness ==
    /\ last.handler = "get_date"
    /\ strip(last.text) = <<>>
    /\ Has(user_data[last.user], "default_date")
    /\ user_data[last.user]["default_date"] = T_Bob
    /\ ~Has(user_data[last.user], "date")
    /\ conv[last.user] = DATE

\* C20: when the analysis a "reanalyze" button asked for has returned, the
\* session holds the same image bytes and the new candidate, and, for a
\* candidate a fresh photo would show with its four choices, the message offers
\* save_ai, edit_manual, reanalyze and cancel again.
C20_ReanalyzeOffersAll ==
    (last.data = "reanalyze" /\ last.result = "analyzed")
    => LET ud == user_data[last.user]
       IN /\ Has(ud, "image_bytes")
          /\ Has(ud, "receipt_data")
          /\ photo_keyboard(ud["receipt_data"]) = FullKeyboard
             => offered[last.user] = FullKeyboard

\* What a session holds of a flow: the seeded defaults, the entered values,
\* the candidate and the image.
FlowKeys ==
    {"default_name", "default_amount", "default_date", "name", "amount", "date",
     "receipt_data", "image_bytes"}

\* C21: a /cancel taken in COLLECTING_DATE leaves the session empty and the
\* user in IDLE; an /add taken with the session empty puts the user in
\* COLLECTING_NAME with a session that holds no default, no entered value, no
\* candidate and no image; and a blank name typed right after such an /add
\* is asked again, the session left as it was.
C21_CancelLeaksNothing ==
    [][LET u == last'.user
       IN /\ (last'.handler = "cancel" /\ conv[u] = DATE)
             => user_data'[u] = EmptyDict /\ conv'[u] = END
          /\ (last'.handler = "add_manual" /\ user_data[u] = EmptyDict)
             => /\ conv'[u] = NAME
                /\ DOMAIN user_data'[u] \cap FlowKeys = {}
          /\ (/\ last.handler = "add_manual"
              /\ DOMAIN user_data[u] \cap FlowKeys = {}
              /\ last'.handler = "get_name"
              /\ last'.user = last.user
              /\ strip(last'.text) = <<>>)
             => user_data'[u] = user_data[u] /\ conv'[u] = NAME]_vars

\* The /cancel was taken in COLLECTING_DATE of a user who had seeded defaults
\* from a photo's candidate (the photo's keyboard is still there).
C21_Witness ==
    /\ last.handler = "cancel"
    /\ last.from = "COLLECTING_DATE"
    /\ "edit_manual" \in buttons[last.user]
    /\ Idle(last.user)

\* C22: the row "accept" (save_ai) appends has a date that parses as
\* YYYY-MM-DD.
C22_AcceptedDateParses ==
    [][(last'.data = "save_ai" /\ Len(ledger') = Len(ledger) + 1)
       => LET row == ledger'[Len(ledger')]
          IN Has(row, "Date") /\ strptime_ok(row["Date"])]_vars

\* C23: for a reply that is a JSON object whose total_amount and confidence,
\* where present, are values float() reads, analyze_receipt returns the record
\* that keeps each value present and has the default for each key missing:
\* empty store_name, amount 0, today's date, "USD", no items, empty summary,
\* confidence 0.  With the date missing this is not the failure record.
C23_MissingKeysDefaulted ==
    (/\ call.op = "analyze_receipt"
     /\ call.reply.kind = "object"
     /\ \A k \in {"total_amount", "confidence"} \cap DOMAIN call.reply.data :
           float_json_ok(call.reply.data[k]))
    => LET data == call.reply.data
           receipt == call.receipt
       IN /\ receipt.store_name = (IF Has(data, "store_name") THEN data["store_name"] ELSE <<>>)
          /\ receipt.total_amount =
                (IF Has(data, "total_amount") THEN float_json(data["total_amount"])
                 ELSE Float(0))
          /\ receipt.date = (IF Has(data, "date") THEN data["date"] ELSE Today)
          /\ receipt.currency = (IF Has(data, "currency") THEN data["currency"] ELSE "USD")
          /\ receipt.items = (IF Has(data, "items") THEN data["items"] ELSE <<>>)
          /\ receipt.summary = (IF Has(data, "summary") THEN data["summary"] ELSE "")
          /\ receipt.confidence =
                (IF Has(data, "confidence") THEN float_json(data["confidence"])
                 ELSE Float(0))
          /\ ~Has(data, "date") => receipt # ReceiptData

\* The reply held store_name and items only.
C23_Witness ==
    /\ call.op = "analyze_receipt"
    /\ call.reply.kind = "object"
    /\ DOMAIN call.reply.data = {"store_name", "items"}
    /\ call.receipt.store_name = T_Shop
    /\ call.receipt.items = <<[name |-> "milk"]>>
    /\ call.receipt.date = Today
    /\ call.receipt.currency = "USD"
    /\ call.receipt.total_amount = Float(0)

\* The numbers written in the cells of an id column that hold a non-negative
\* integer in decimal digits.
NumericIds(ids) == {Number(ids[i]) : i \in {k \in 1..Len(ids) : AllDigits(ids[k])}}

\* C24: get_next_id returns the greatest numeric id plus 1, and 1 when there
\* is none; a cell that holds no non-negative integer changes nothing to the
\* result.  For the ids 1, 2, 5 it returns 6.
C24_NextIdSkipsNonNumeric ==
    call.op = "get_next_id"
    => LET numbers == NumericIds(call.ids)
       IN /\ call.id = (IF numbers = {} THEN 1
                        ELSE (CHOOSE m \in numbers : \A x \in numbers : x <= m) + 1)
          /\ call.ids = <<(<<"1">>), (<<"2">>), (<<"5">>)>> => call.id = 6

\* C25: stats_command ends with a reply whatever numbers the Amount cells of
\* the ledger hold; it raises no ZeroDivisionError, neither with no rows nor
\* with rows whose amounts sum to 0.
C25_StatsNeverDivideByZero ==
    (/\ call.op = "stats_command"
     /\ \A i \in 1..Len(call.rows) : Has(call.rows[i], "Amount"))
    => call.ok

C27_SessionMatchesState ==
    \A u \in Users :
        /\ conv[u] # END => Has(user_data[u], "user_id")
        /\ conv[u] \in {AMOUNT, DATE, CATEGORY} => Has(user_data[u], "name")
        /\ conv[u] \in {DATE, CATEGORY} => Has(user_data[u], "amount")
        /\ conv[u] = CATEGORY => Has(user_data[u], "date")

\* C28: the row get_category appends at the end of a flow begun with /add
\* carries nothing of a photo: it has no image and its description, summary,
\* items count, confidence and currency are the defaults.
C28_ManualRowHasNoPhotoData ==
    [][(last'.handler = "get_category" /\ Len(ledger') = Len(ledger) + 1)
       => LET row == ledger'[Len(ledger')]
          IN /\ row["Has Image"] = "no"
             /\ row["Description"] = ""
             /\ row["AI Summary"] = ""
             /\ row["Items Count"] = 0
             /\ row["AI Confidence"] = Float(0)
             /\ row["Currency"] = "USD"]_vars

\* C29: whatever the order in which the commits of different users are
\* handled, no two rows of the ledger have the same id, the id column being
\* read at each commit.
C29_NoSharedId ==
    \A i, j \in 1..Len(ledger) : ledger[i]["ID"] = ledger[j]["ID"] => i = j

\* The two users have one row each; user 2's was appended first.
C29_Witness ==
    /\ Len(ledger) = 2
    /\ ledger[1]["User ID"] = 2
    /\ ledger[2]["User ID"] = 1
    /\ ledger[1]["ID"] = 1
    /\ ledger[2]["ID"] = 2

\* C30: when the sheet is read, every name get_names returns has a row in
\* get_transactions(name), and the count /total reports without a name, the
\* sum of len(get_transactions(name)) over those names, is the number of rows
\* whose Name is not blank.
C30_NamesAgreeWithFilter ==
    [][(call'.op = "get_names" /\ call'.ok)
       => /\ ledger' = ledger
          /\ \A name \in call'.names : Matching(ledger', name) # {}
          /\ call'.count =
                Cardinality({i \in 1..Len(ledger') :
                               strip(Get(ledger'[i], "Name", <<>>)) # <<>>})]_vars

====
